---- MODULE Spec2Model ----
(***************************************************************************)
(* A model of msgrouter's GenericRouter (src/router.go): three buffered    *)
(* channels, the registry rc, the routing table rt, the submit-side        *)
(* wrappers, Consume and the handlers it runs.                             *)
(***************************************************************************)
EXTENDS Integers, Sequences, FiniteSets, TLC

\* ---------------------------------------------------------------- bounds
NumHandles == 2      \* component handles that exist outside the router
MaxIDs == 2          \* ComponentIDs newUUID can hand out in one run
BufferSize == 2      \* the bufferSize given to NewGenericRouter
MaxCalls == 5        \* submit-side calls made in one run
MaxMsgCalls == 4     \* submit-side calls made in one run of MsgSpec
MaxFewCalls == 3     \* submit-side calls made in one run of FewSpec
NumProducers == 1    \* producer goroutines that can be parked in a send

\* ------------------------------------------------------------- constants
REGISTER == 0
UNREGISTER == 1
ADDROUTE == 0
REMOVEROUTE == 1

Handles == 1..NumHandles
IDs == 1..MaxIDs
NoID == 0            \* GetID returns an error: the handle carries no ID
Payloads == {"p", "q"}

ErrNil == "nil"
ErrSend == "Could not send message to router"
ErrUUID == "Could not generate UUID"
ErrNotRegistered == "Component not registered"

VARIABLES
    msgChan,    \* buffer of externalMsgChan/internalMsgChan
    rtChan,     \* buffer of externalRtChan/internalRtChan
    regChan,    \* buffer of externalRegChan/internalRegChan
    rtSendq,    \* callers parked in `r.externalRtChan <- m`, with their envelope
    regSendq,   \* callers parked in `r.externalRegChan <- m`, with their envelope
    rc,         \* map[ComponentID]Component
    rt,         \* routingTable: map[ComponentID][]Component
    cid,        \* per handle, the ID the component carries (NoID: none)
    nextID,     \* the next value newUUID returns
    consumer,   \* "idle": no Consume call is running; "running": one is in its select
    sends,      \* the running goroutines started by `go r.send(m)`, in spawn order
    sendRet,    \* what the last call of Send returned
    hres,       \* the last registration handler's run: the path it took and
                \* the error it returned
    rres,       \* the path the last route handler took
    alive,      \* FALSE once the process has died (panic or runtime fatal error)
    calls,      \* submit-side calls made so far
    lastDone,   \* history: the send goroutine that returned last: its message,
                \* whether the source was registered (srcOk), the Send calls it
                \* made (got) and reqRoutes of its source when it looked up r.rt (due)
    reqRoutes   \* history: per source ID, the destinations of the route requests
                \* that passed both registration checks and were not removed since

vars == <<msgChan, rtChan, regChan, rtSendq, regSendq, rc, rt, cid, nextID,
          consumer, sends, sendRet, hres, rres, alive, calls, lastDone, reqRoutes>>

\* --------------------------------------------------------------- helpers
MapPut(m, k, v) == [x \in (DOMAIN m) \cup {k} |-> IF x = k THEN v ELSE m[x]]
MapDel(m, k) == [x \in (DOMAIN m) \ {k} |-> m[x]]
EmptyMap == [x \in {} |-> 0]

Range(s) == {s[i] : i \in DOMAIN s}
Count(x, s) == Cardinality({i \in DOMAIN s : s[i] = x})
Without(s, x) == SelectSeq(s, LAMBDA y : y # x)

\* s without its i-th element.
RemoveAt(s, i) == SubSeq(s, 1, i - 1) \o SubSeq(s, i + 1, Len(s))

\* No send goroutine has returned yet.
NoSend == [src |-> NoID, payload |-> "", srcOk |-> FALSE, due |-> << >>, got |-> << >>]

\* The component's GetID: (id, nil) when it carries one, an error otherwise.
GetIDOk(h) == cid[h] # NoID

\* The first check of registerComponent: the handle carries an ID that is in
\* the registry and mapped to the handle.
Registered(h) == GetIDOk(h) /\ cid[h] \in DOMAIN rc /\ rc[cid[h]] = h

\* ------------------------------------------------------------------ Init
Init ==
    /\ msgChan = << >>
    /\ rtChan = << >>
    /\ regChan = << >>
    /\ rtSendq = << >>
    /\ regSendq = << >>
    /\ rc = EmptyMap
    /\ rt = EmptyMap
    /\ cid = [h \in Handles |-> NoID]
    /\ nextID = 1
    /\ consumer = "idle"
    /\ sends = << >>
    /\ sendRet = ErrNil
    /\ hres = [path |-> "none", err |-> ErrNil]
    /\ rres = "none"
    /\ alive = TRUE
    /\ calls = 0
    /\ lastDone = NoSend
    /\ reqRoutes = [i \in IDs |-> << >>]

\* ------------------------------------------------------- submit-side API
\* Send without its default case: the envelope is pushed whatever the buffer holds.
SendAlwaysPushes(m) ==
    /\ alive
    /\ calls < MaxCalls
    /\ calls' = calls + 1
    /\ msgChan' = Append(msgChan, m)
    /\ sendRet' = ErrNil
    /\ UNCHANGED <<rtChan, regChan, rtSendq, regSendq, rc, rt, cid, nextID,
                   consumer, sends, hres, rres, alive, lastDone, reqRoutes>>

\* A non-blocking push: select { case ch <- m: return nil; default: return err }.
Send(m) ==
    /\ alive
    /\ calls < MaxCalls
    /\ calls' = calls + 1
    /\ IF Len(msgChan) < BufferSize
          THEN /\ msgChan' = Append(msgChan, m)
               /\ sendRet' = ErrNil
          ELSE /\ UNCHANGED msgChan
               /\ sendRet' = ErrSend
    /\ UNCHANGED <<rtChan, regChan, rtSendq, regSendq, rc, rt, cid, nextID,
                   consumer, sends, hres, rres, alive, lastDone, reqRoutes>>

\* `ch <- m` on the registration channel: the envelope enters the buffer when
\* there is room, and the caller parks on the channel's send queue otherwise.
PushReg(m) ==
    /\ alive
    /\ calls < MaxCalls
    /\ calls' = calls + 1
    /\ IF Len(regChan) < BufferSize
          THEN /\ regChan' = Append(regChan, m)
               /\ UNCHANGED regSendq
          ELSE /\ Len(regSendq) + Len(rtSendq) < NumProducers
               /\ regSendq' = Append(regSendq, m)
               /\ UNCHANGED regChan
    /\ UNCHANGED <<msgChan, rtChan, rtSendq, rc, rt, cid, nextID, consumer,
                   sends, sendRet, hres, rres, alive, lastDone, reqRoutes>>

\* `ch <- m` on the route channel.
PushRt(m) ==
    /\ alive
    /\ calls < MaxCalls
    /\ calls' = calls + 1
    /\ IF Len(rtChan) < BufferSize
          THEN /\ rtChan' = Append(rtChan, m)
               /\ UNCHANGED rtSendq
          ELSE /\ Len(regSendq) + Len(rtSendq) < NumProducers
               /\ rtSendq' = Append(rtSendq, m)
               /\ UNCHANGED rtChan
    /\ UNCHANGED <<msgChan, regChan, regSendq, rc, rt, cid, nextID, consumer,
                   sends, sendRet, hres, rres, alive, lastDone, reqRoutes>>

RegisterComponent(c) == PushReg([c |-> c, op |-> REGISTER])

UnregisterComponent(c) == PushReg([c |-> c, op |-> UNREGISTER])

AddRoute(src, dest) == PushRt([op |-> ADDROUTE, src |-> src, dest |-> dest])

RemoveRoute(src, dest) == PushRt([op |-> REMOVEROUTE, src |-> src, dest |-> dest])

\* ------------------------------------------------------------- handlers
\* A receive from a buffered channel takes the head of the buffer; when a
\* sender is parked, its envelope enters the buffer in the same step.
RecvBuf(buf, q) == IF q = << >> THEN Tail(buf) ELSE Append(Tail(buf), Head(q))
RecvQ(q) == IF q = << >> THEN q ELSE Tail(q)

\* newUUID: a fresh ID, or an error.  At most MaxIDs IDs are handed out.
NewUUIDOk == nextID <= MaxIDs

\* registerComponent without the return after newUUID's error: the zero
\* UUID is given to the component and stored.
registerComponentNoReturn(m) ==
    IF Registered(m.c)
       THEN /\ hres' = [path |-> "already", err |-> ErrNil]
            /\ UNCHANGED <<rc, cid, nextID>>
       ELSE \/ /\ hres' = [path |-> "nouuid", err |-> ErrNil]
               /\ cid' = [cid EXCEPT ![m.c] = NoID]
               /\ rc' = MapPut(rc, NoID, m.c)
               /\ UNCHANGED nextID
            \/ /\ NewUUIDOk
               /\ \E setOk \in BOOLEAN :
                     cid' = IF setOk THEN [cid EXCEPT ![m.c] = nextID] ELSE cid
               /\ rc' = MapPut(rc, nextID, m.c)
               /\ nextID' = nextID + 1
               /\ hres' = [path |-> "registered", err |-> ErrNil]

\* registerComponent without the lookup of the ID the component carries.
registerComponentAlwaysNew(m) ==
    \/ /\ hres' = [path |-> "nouuid", err |-> ErrUUID]
       /\ UNCHANGED <<rc, cid, nextID>>
    \/ /\ NewUUIDOk
       /\ cid' = [cid EXCEPT ![m.c] = nextID]
       /\ rc' = MapPut(rc, nextID, m.c)
       /\ nextID' = nextID + 1
       /\ hres' = [path |-> IF Registered(m.c) THEN "already" ELSE "registered",
                   err |-> ErrNil]

\* registerComponent, lines 203-230.  The result of SetID is not looked at.
registerComponent(m) ==
    IF Registered(m.c)
       THEN /\ hres' = [path |-> "already", err |-> ErrNil]
            /\ UNCHANGED <<rc, cid, nextID>>
       ELSE \/ /\ hres' = [path |-> "nouuid", err |-> ErrUUID]
               /\ UNCHANGED <<rc, cid, nextID>>
            \/ /\ NewUUIDOk
               /\ \E setOk \in BOOLEAN :
                     cid' = IF setOk THEN [cid EXCEPT ![m.c] = nextID] ELSE cid
               /\ rc' = MapPut(rc, nextID, m.c)
               /\ nextID' = nextID + 1
               /\ hres' = [path |-> "registered", err |-> ErrNil]

\* unregisterComponent deleting by the handle instead of by its ID: every
\* entry that holds the handle goes.
unregisterComponentByHandle(m) ==
    IF GetIDOk(m.c) /\ cid[m.c] \in DOMAIN rc
       THEN /\ rc' = [k \in {x \in DOMAIN rc : rc[x] # m.c} |-> rc[k]]
            /\ hres' = [path |-> "deleted", err |-> ErrNil]
            /\ UNCHANGED <<cid, nextID>>
       ELSE /\ hres' = [path |-> "absent", err |-> ErrNotRegistered]
            /\ UNCHANGED <<rc, cid, nextID>>

\* unregisterComponent, lines 246-259.
unregisterComponent(m) ==
    IF GetIDOk(m.c) /\ cid[m.c] \in DOMAIN rc
       THEN /\ rc' = MapDel(rc, cid[m.c])
            /\ hres' = [path |-> "deleted", err |-> ErrNil]
            /\ UNCHANGED <<cid, nextID>>
       ELSE /\ hres' = [path |-> "absent", err |-> ErrNotRegistered]
            /\ UNCHANGED <<rc, cid, nextID>>

\* addRoute without its check of the source, storing what it appended.
addRouteNoSourceCheck(m) ==
    IF m.dest \notin DOMAIN rc
       THEN rt' = rt /\ rres' = "add: no destination"
       ELSE LET srcArray == IF m.src \in DOMAIN rt THEN rt[m.src] ELSE << >>
            IN  /\ rt' = MapPut(rt, m.src, Append(srcArray, rc[m.dest]))
                /\ rres' = "add: appended"

\* addRoute, lines 273-289: the appended slice is assigned to the local
\* srcArray only, r.rt is never stored to.
addRoute(m) ==
    IF m.src \notin DOMAIN rc
       THEN rt' = rt /\ rres' = "add: no source"
       ELSE IF m.dest \notin DOMAIN rc
               THEN rt' = rt /\ rres' = "add: no destination"
               ELSE LET srcArray == IF m.src \in DOMAIN rt THEN rt[m.src] ELSE << >>
                        appended == Append(srcArray, rc[m.dest])
                    IN  rt' = rt /\ rres' = "add: appended"

\* The loop of removeRoute, lines 317-322, over a slice of n elements.  The
\* range runs over the n original positions and reads each element from the
\* backing array; L is the length of the local slice, shortened by one at each
\* match.  srcArray[i] with i beyond the local length panics.
Swap(arr, a, b) == [arr EXCEPT ![a] = arr[b], ![b] = arr[a]]

RECURSIVE removeLoop(_, _, _, _)
removeLoop(arr, L, i, target) ==
    IF i > Len(arr)
       THEN [arr |-> arr, len |-> L, panic |-> FALSE]
       ELSE IF arr[i] = target
               THEN IF i > L
                       THEN [arr |-> arr, len |-> L, panic |-> TRUE]
                       ELSE removeLoop(Swap(arr, L, i), L - 1, i + 1, target)
               ELSE removeLoop(arr, L, i + 1, target)

\* removeRoute, lines 302-324: the swaps land in the backing array r.rt[src]
\* shares, the shortened slice stays in the local srcArray.
removeRoute(m) ==
    IF m.src \notin DOMAIN rc
       THEN rt' = rt /\ alive' = alive /\ rres' = "remove: no source"
       ELSE IF m.dest \notin DOMAIN rc
               THEN rt' = rt /\ alive' = alive /\ rres' = "remove: no destination"
               ELSE LET srcArray == IF m.src \in DOMAIN rt THEN rt[m.src] ELSE << >>
                        res == removeLoop(srcArray, Len(srcArray), 1, rc[m.dest])
                    IN  /\ rt' = IF m.src \in DOMAIN rt
                                    THEN [rt EXCEPT ![m.src] = res.arr]
                                    ELSE rt
                        /\ alive' = ~res.panic
                        /\ rres' = "remove: looped"

\* The loop of send, lines 167-169: Send is called on every element, its
\* result is dropped.  got records the calls with what each returned.
RECURSIVE deliver(_, _)
deliver(routesArray, failing) ==
    IF routesArray = << >>
       THEN << >>
       ELSE << [c |-> Head(routesArray), err |-> Head(routesArray) \in failing] >>
            \o deliver(Tail(routesArray), failing)

\* ------------------------------------------------------------ goroutines
\* What a send goroutine leaves behind when it returns.
Ended(g, srcOk, got) ==
    [src |-> g.src, payload |-> g.payload, srcOk |-> srcOk,
     due |-> IF srcOk THEN reqRoutes[g.src] ELSE << >>, got |-> got]

\* send without its lookup of the source in r.rc.
sendCheckNoLookup(i) ==
    /\ alive
    /\ sends[i].pc = "check"
    /\ sends' = [sends EXCEPT ![i].pc = "routes"]
    /\ UNCHANGED <<msgChan, rtChan, regChan, rtSendq, regSendq, rc, rt, cid,
                   nextID, consumer, sendRet, hres, rres, alive, calls,
                   lastDone, reqRoutes>>

\* send, lines 156-158: the lookup of the source in r.rc.
sendCheck(i) ==
    /\ alive
    /\ sends[i].pc = "check"
    /\ IF sends[i].src \in DOMAIN rc
          THEN /\ sends' = [sends EXCEPT ![i].pc = "routes"]
               /\ UNCHANGED lastDone
          ELSE /\ sends' = RemoveAt(sends, i)
               /\ lastDone' = Ended(sends[i], FALSE, << >>)
    /\ UNCHANGED <<msgChan, rtChan, regChan, rtSendq, regSendq, rc, rt, cid,
                   nextID, consumer, sendRet, hres, rres, alive, calls, reqRoutes>>

\* send, lines 161-169: the lookup in r.rt and the loop over the routes.
sendRoutes(i) ==
    /\ alive
    /\ sends[i].pc = "routes"
    /\ sends' = RemoveAt(sends, i)
    /\ \E failing \in SUBSET Handles :
          lastDone' = Ended(sends[i], TRUE,
                            IF sends[i].src \in DOMAIN rt
                               THEN deliver(rt[sends[i].src], failing)
                               ELSE << >>)
    /\ UNCHANGED <<msgChan, rtChan, regChan, rtSendq, regSendq, rc, rt, cid,
                   nextID, consumer, sendRet, hres, rres, alive, calls, reqRoutes>>

\* --------------------------------------------------------------- Consume
\* A call of Consume: it enters its select and waits there for an envelope.
CallConsume ==
    /\ alive
    /\ consumer = "idle"
    /\ consumer' = "running"
    /\ UNCHANGED <<msgChan, rtChan, regChan, rtSendq, regSendq, rc, rt, cid,
                   nextID, sends, sendRet, hres, rres, alive, calls, lastDone,
                   reqRoutes>>

\* case m := <-r.internalMsgChan: go r.send(m)
ConsumeMsg ==
    /\ alive
    /\ consumer = "running"
    /\ msgChan # << >>
    /\ LET m == Head(msgChan)
       IN  sends' = Append(sends, [src |-> m.src, payload |-> m.payload,
                                   pc |-> "check"])
    /\ msgChan' = Tail(msgChan)
    /\ consumer' = "idle"
    /\ UNCHANGED <<rtChan, regChan, rtSendq, regSendq, rc, rt, cid, nextID,
                   sendRet, hres, rres, alive, calls, lastDone, reqRoutes>>

\* Both registration checks of addRoute and removeRoute pass for m.
RouteChecksPass(m) == m.src \in DOMAIN rc /\ m.dest \in DOMAIN rc

\* The route case of Consume without its switch on the op code: every route
\* envelope goes to addRoute.
ConsumeRtNoSwitch ==
    /\ alive
    /\ consumer = "running"
    /\ rtChan # << >>
    /\ LET m == Head(rtChan)
       IN  /\ addRoute(m) /\ alive' = alive
           /\ reqRoutes' =
                 IF ~RouteChecksPass(m) THEN reqRoutes
                 ELSE [reqRoutes EXCEPT ![m.src] = Append(@, rc[m.dest])]
    /\ rtChan' = RecvBuf(rtChan, rtSendq)
    /\ rtSendq' = RecvQ(rtSendq)
    /\ consumer' = "idle"
    /\ UNCHANGED <<msgChan, regChan, regSendq, rc, cid, nextID, sends, sendRet,
                   hres, calls, lastDone>>

\* case m := <-r.internalRtChan: addRoute or removeRoute by op code
ConsumeRt ==
    /\ alive
    /\ consumer = "running"
    /\ rtChan # << >>
    /\ LET m == Head(rtChan)
       IN  /\ IF m.op = ADDROUTE
                 THEN addRoute(m) /\ alive' = alive
                 ELSE removeRoute(m)
           /\ reqRoutes' =
                 IF ~RouteChecksPass(m) THEN reqRoutes
                 ELSE IF m.op = ADDROUTE
                         THEN [reqRoutes EXCEPT ![m.src] = Append(@, rc[m.dest])]
                         ELSE [reqRoutes EXCEPT ![m.src] = Without(@, rc[m.dest])]
    /\ rtChan' = RecvBuf(rtChan, rtSendq)
    /\ rtSendq' = RecvQ(rtSendq)
    /\ consumer' = "idle"
    /\ UNCHANGED <<msgChan, regChan, regSendq, rc, cid, nextID, sends, sendRet,
                   hres, calls, lastDone>>

\* A send goroutine is about to read r.rc.
ReaderOfRc == \E i \in DOMAIN sends : sends[i].pc = "check"

\* case m := <-r.internalRegChan: unregisterComponent or registerComponent.
\* A write of r.rc while a send goroutine reads it is a data race on a map:
\* the read sees the map before or after the write, or the runtime ends the
\* process ("concurrent map read and map write").
ConsumeReg ==
    /\ alive
    /\ consumer = "running"
    /\ regChan # << >>
    /\ LET m == Head(regChan)
       IN  IF m.op = UNREGISTER
              THEN unregisterComponent(m)
              ELSE registerComponent(m)
    /\ regChan' = RecvBuf(regChan, regSendq)
    /\ regSendq' = RecvQ(regSendq)
    /\ consumer' = "idle"
    /\ alive' \in (IF rc' # rc /\ ReaderOfRc THEN {TRUE, FALSE} ELSE {TRUE})
    /\ UNCHANGED <<msgChan, rtChan, rtSendq, rt, sends, sendRet, rres, calls,
                   lastDone, reqRoutes>>

Consume == ConsumeMsg \/ ConsumeRt \/ ConsumeReg

\* ------------------------------------------------------------------ Next
Next ==
    \/ \E src \in IDs, payload \in Payloads : Send([src |-> src, payload |-> payload])
    \/ \E c \in Handles : RegisterComponent(c)
    \/ \E c \in Handles : UnregisterComponent(c)
    \/ \E src \in IDs, dest \in IDs : AddRoute(src, dest)
    \/ \E src \in IDs, dest \in IDs : RemoveRoute(src, dest)
    \/ CallConsume
    \/ ConsumeMsg
    \/ ConsumeRt
    \/ ConsumeReg
    \/ \E i \in DOMAIN sends : sendCheck(i)
    \/ \E i \in DOMAIN sends : sendRoutes(i)

Spec == Init /\ [][Next]_vars

\* The router under producers that only register and unregister components.
NextReg ==
    \/ \E c \in Handles : RegisterComponent(c)
    \/ \E c \in Handles : UnregisterComponent(c)
    \/ CallConsume
    \/ ConsumeReg

RegSpec == Init /\ [][NextReg]_vars

\* The router under producers that only register components and send messages.
NextMsg ==
    \/ /\ calls < MaxMsgCalls
       /\ \E src \in IDs, payload \in Payloads : Send([src |-> src, payload |-> payload])
    \/ /\ calls < MaxMsgCalls
       /\ \E c \in Handles : RegisterComponent(c)
    \/ CallConsume
    \/ ConsumeMsg
    \/ ConsumeReg
    \/ \E i \in DOMAIN sends : sendCheck(i)
    \/ \E i \in DOMAIN sends : sendRoutes(i)

MsgSpec == Init /\ [][NextMsg]_vars

\* The router under producers that make a few calls of any kind.
NextFew ==
    \/ /\ calls < MaxFewCalls
       /\ \E src \in IDs, payload \in Payloads : Send([src |-> src, payload |-> payload])
    \/ /\ calls < MaxFewCalls
       /\ \E c \in Handles : RegisterComponent(c)
    \/ /\ calls < MaxFewCalls
       /\ \E c \in Handles : UnregisterComponent(c)
    \/ /\ calls < MaxFewCalls
       /\ \E src \in IDs, dest \in IDs : AddRoute(src, dest)
    \/ /\ calls < MaxFewCalls
       /\ \E src \in IDs, dest \in IDs : RemoveRoute(src, dest)
    \/ CallConsume
    \/ ConsumeMsg
    \/ ConsumeRt
    \/ ConsumeReg
    \/ \E i \in DOMAIN sends : sendCheck(i)
    \/ \E i \in DOMAIN sends : sendRoutes(i)

FewSpec == Init /\ [][NextFew]_vars

\* The Go scheduler runs every runnable goroutine: a Consume call waiting in
\* its select with an envelope ready, and every started send goroutine.
\* Nothing obliges a caller to submit or to call Consume again.
LiveSpec ==
    /\ Spec
    /\ WF_vars(Consume)
    /\ WF_vars(\E i \in DOMAIN sends : sendCheck(i))
    /\ WF_vars(\E i \in DOMAIN sends : sendRoutes(i))

\* ================================================================ claims
GotHandles(g) == [j \in DOMAIN g.got |-> g.got[j].c]
Queued == msgChan # << >> \/ rtChan # << >> \/ regChan # << >>
\* The destination sequence later sends of src use.
DestSeq(src) == IF src \in DOMAIN rt THEN rt[src] ELSE << >>
SameBag(s, t) == \A h \in Handles : Count(h, s) = Count(h, t)
\* Every registered component carries the ID it is registered under.
SetIDsTookEffect == \A k \in DOMAIN rc : cid[rc[k]] = k

\* C1: when addRoute(A,B) was handled with A and B registered, a send(A,
\* payload) handled afterwards, with A still registered, calls B's Send
\* exactly once (the components' SetID calls having taken effect).
C1_AddRouteThenSendDelivers ==
    (lastDone.srcOk /\ SetIDsTookEffect) =>
        \A h \in Handles :
            Count(h, lastDone.due) = 1 => Count(h, GotHandles(lastDone)) = 1

\* C2: no submit-side call ever blocks its caller: no caller is ever parked
\* in a channel send.
C2_SubmitNeverBlocks == rtSendq = << >> /\ regSendq = << >>

\* C3: once a Consume call is running, every queued envelope is eventually
\* taken from its channel (unless the process has died): the consumer does
\* not stop after handling one envelope.
C3_QueuedEventuallyHandled ==
    [](consumer = "running" /\ Queued => <>(~Queued \/ ~alive))

\* C4: envelopes of one channel are handled in submission order: of the
\* message handlers running, only the one of the earliest message takes a
\* step, so a later message's handler never overtakes an earlier one's.
C4_SameChannelInOrder ==
    [][\A i \in DOMAIN sends : (sendCheck(i) \/ sendRoutes(i)) => i = 1]_vars

\* C5: handler execution is serialized: the registry is never written by a
\* registration handler while a message handler is running.
C5_HandlersSerialized == [][rc' # rc => sends = << >>]_vars

\* C6: after removeRoute(A,B) is handled with A and B registered, A's
\* destination sequence holds no B and exactly the other destinations
\* addRoute gave it before.
C6_RemoveRouteKeepsOthers ==
    [][\A src \in IDs, dest \in IDs :
          ( /\ ConsumeRt
            /\ Head(rtChan) = [op |-> REMOVEROUTE, src |-> src, dest |-> dest]
            /\ src \in DOMAIN rc /\ dest \in DOMAIN rc
            /\ SetIDsTookEffect )
          => /\ Count(rc[dest], DestSeq(src)') = 0
             /\ SameBag(DestSeq(src)', Without(reqRoutes[src], rc[dest]))]_vars

\* C7: fan-out is best effort: a dispatch for a source with several
\* destinations calls Send on every one of them, whatever the calls return.
C7_FanOutReachesAll ==
    (lastDone.srcOk /\ SetIDsTookEffect /\ Cardinality(Range(lastDone.due)) >= 2) =>
        Range(lastDone.due) \subseteq Range(GotHandles(lastDone))

\* C8: a Send called on a full message channel returns the error and changes
\* nothing else; no channel ever holds more than BufferSize envelopes; and the
\* message channel only grows at its tail and only shrinks by Consume taking
\* its head and starting that message's handler, so every accepted message
\* is handled once the channel is drained.
C8_SendOverflow ==
    /\ [](Len(msgChan) <= BufferSize /\ Len(rtChan) <= BufferSize
          /\ Len(regChan) <= BufferSize)
    /\ [][\A src \in IDs, payload \in Payloads :
             (Len(msgChan) = BufferSize /\ Send([src |-> src, payload |-> payload]))
             => /\ sendRet' = ErrSend
                /\ UNCHANGED <<msgChan, rtChan, regChan, rtSendq, regSendq, rc, rt,
                               cid, sends>>]_vars
    /\ [][msgChan' # msgChan =>
             \/ \E m \in [src : IDs, payload : Payloads] :
                   msgChan' = Append(msgChan, m) /\ sendRet' = ErrNil
             \/ /\ msgChan' = Tail(msgChan)
                /\ sends' = Append(sends, [src |-> Head(msgChan).src,
                                           payload |-> Head(msgChan).payload,
                                           pc |-> "check"])]_vars

\* C8's case: Send has returned the error, and the channel has since been
\* drained and every handler has returned, with a component registered.
C8_Witness ==
    /\ sendRet = ErrSend
    /\ msgChan = << >>
    /\ sends = << >>
    /\ lastDone # NoSend
    /\ DOMAIN rc # {}

\* C9: REGISTER for a handle whose ID is in the registry and mapped to that
\* handle returns nil and leaves the handle's ID, the registry and the ID
\* generator unchanged.
C9_RegisterIdempotent ==
    [][\A h \in Handles :
          ( /\ ConsumeReg
            /\ Head(regChan) = [c |-> h, op |-> REGISTER]
            /\ Registered(h) )
          => /\ cid' = cid
             /\ rc' = rc
             /\ nextID' = nextID
             /\ hres'.err = ErrNil]_vars

\* C9's case: a REGISTER was handled for a handle that was registered.
C9_Witness ==
    /\ hres.path = "already"
    /\ \E h \in Handles : Registered(h)

\* C10: UNREGISTER for a handle without ID, or whose ID is not in the
\* registry, returns "Component not registered" and leaves the registry
\* unchanged; otherwise it removes the entry under the handle's ID and no
\* other.
C10_Unregister ==
    [][\A h \in Handles :
          ( /\ ConsumeReg
            /\ Head(regChan) = [c |-> h, op |-> UNREGISTER] )
          => IF GetIDOk(h) /\ cid[h] \in DOMAIN rc
                THEN /\ DOMAIN rc' = (DOMAIN rc) \ {cid[h]}
                     /\ \A k \in DOMAIN rc' : rc'[k] = rc[k]
                     /\ hres'.err = ErrNil
                ELSE /\ rc' = rc
                     /\ hres'.err = ErrNotRegistered]_vars

\* C10's case: an UNREGISTER removed an entry and another entry is left.
C10_Witness ==
    /\ hres.path = "deleted"
    /\ DOMAIN rc # {}


\* C11: an addRoute(A,B) handled while A or B is not in the registry leaves
\* the routing table as it was, and no dispatch ever calls Send on a handle
\* more often than the routes accepted for its source name it.
C11_AddRouteUnregistered ==
    /\ [][(/\ ConsumeRt
           /\ Head(rtChan).op = ADDROUTE
           /\ ~RouteChecksPass(Head(rtChan))) => rt' = rt]_vars
    /\ [](\A h \in Handles :
              Count(h, GotHandles(lastDone)) <= Count(h, lastDone.due))

\* An addRoute whose destination was not registered has been handled, and a
\* message from a registered source has been dispatched and reached nobody.
C11_Witness ==
    /\ rres = "add: no destination"
    /\ lastDone.srcOk
    /\ lastDone.got = << >>


\* C12: a ComponentID is a key of the registry exactly when a REGISTER
\* assigned it to some handle and no UNREGISTER of that handle has succeeded
\* since. In steps: the keys change only by a REGISTER that assigns an ID or
\* an UNREGISTER that succeeds; the REGISTER puts the new ID in for its
\* handle; after the UNREGISTER no key belongs to its handle any more.
C12_KeysAreLiveRegistrations ==
    /\ [][DOMAIN rc' # DOMAIN rc =>
             ConsumeReg /\ hres'.path \in {"registered", "deleted"}]_vars
    /\ [][(ConsumeReg /\ hres'.path = "registered") =>
             (nextID \in DOMAIN rc' /\ rc'[nextID] = Head(regChan).c)]_vars
    /\ [][(ConsumeReg /\ hres'.path = "deleted") =>
             \A k \in DOMAIN rc' : rc'[k] # Head(regChan).c]_vars


\* C13: when newUUID fails while a REGISTER is handled, the handler returns
\* the error "Could not generate UUID", the handle's ID is what it was (SetID
\* is not called) and the registry is what it was.
C13_UUIDFailure ==
    [][(ConsumeReg /\ Head(regChan).op = REGISTER /\ hres'.path = "nouuid") =>
          (hres'.err = ErrUUID /\ cid' = cid /\ rc' = rc)]_vars

\* A REGISTER whose newUUID failed has been handled.
C13_Witness == hres.path = "nouuid" /\ hres.err = ErrUUID /\ consumer = "idle"


\* C14: no handler outcome stops the consumer: whatever envelope is handled
\* in whatever state, the handler completes and the process lives on to
\* handle the envelopes submitted afterwards.
C14_NoHandlerAborts == alive


\* C15: a message whose source is not in the registry when send looks it up
\* is dropped there: the goroutine ends at once and has called no Send; and
\* a message whose source has no entry in the routing table ends with no
\* Send called either.
C15_UnknownSourceDropped ==
    /\ [][\A i \in DOMAIN sends :
             (sendCheck(i) /\ sends[i].src \notin DOMAIN rc) =>
                 (/\ Len(sends') = Len(sends) - 1
                  /\ lastDone' = Ended(sends[i], FALSE, << >>)
                  /\ lastDone'.got = << >>)]_vars
    /\ [][\A i \in DOMAIN sends :
             (sendRoutes(i) /\ sends[i].src \notin DOMAIN rt) =>
                 lastDone'.got = << >>]_vars

\* A message whose source was not registered has been dropped, and some
\* component is registered.
C15_Witness ==
    /\ lastDone.src \in IDs
    /\ ~lastDone.srcOk
    /\ lastDone.got = << >>
    /\ DOMAIN rc # {}


\* C16: an UNREGISTER leaves the routing table as it was, and a route A->B
\* accepted before B was unregistered still works: a later dispatch for A,
\* with A registered, calls Send on B's handle (the components' SetID calls
\* having taken effect).
C16_UnregisterKeepsRoutes ==
    /\ [][(ConsumeReg /\ Head(regChan).op = UNREGISTER) => rt' = rt]_vars
    /\ [][\A i \in DOMAIN sends :
             (/\ sendRoutes(i)
              /\ sends[i].src \in DOMAIN rc
              /\ SetIDsTookEffect) =>
                 \A h \in Range(reqRoutes[sends[i].src]) :
                     h \notin Range(rc) => h \in Range(GotHandles(lastDone'))]_vars


\* C17: a stale route can be cleaned out: when a route from A to B's handle
\* was accepted and B has been unregistered since, handling removeRoute(A,B),
\* with A registered, gets to the removal loop and afterwards B's handle is
\* neither among the routes A was given nor in A's destination sequence
\* (the components' SetID calls having taken effect).
C17_StaleRouteRemovable ==
    [][\A h \in Handles :
          (/\ ConsumeRt
           /\ Head(rtChan).op = REMOVEROUTE
           /\ Head(rtChan).src \in DOMAIN rc
           /\ Head(rtChan).dest \notin DOMAIN rc
           /\ SetIDsTookEffect
           /\ cid[h] = Head(rtChan).dest
           /\ Count(h, reqRoutes[Head(rtChan).src]) > 0) =>
              (/\ rres' = "remove: looped"
               /\ Count(h, reqRoutes'[Head(rtChan).src]) = 0
               /\ Count(h, DestSeq(Head(rtChan).src)') = 0)]_vars


\* C18: the registry is consistent with the handles, whatever SetID
\* returned: every entry id -> h has h.GetID() = id, and no handle is
\* registered under two IDs.
C18_RegistryConsistent ==
    /\ \A k \in DOMAIN rc : GetIDOk(rc[k]) /\ cid[rc[k]] = k
    /\ \A k1, k2 \in DOMAIN rc : rc[k1] = rc[k2] => k1 = k2


\* C19: one Consume call takes exactly one envelope, from one channel that
\* holds one, runs the handler its channel and op code select and leaves
\* the other two channels as they were; while all three channels are empty
\* the call waits and changes nothing.
C19_TookMsg ==
    /\ msgChan # << >> /\ msgChan' = Tail(msgChan)
    /\ sends' = Append(sends, [src |-> Head(msgChan).src,
                               payload |-> Head(msgChan).payload,
                               pc |-> "check"])
    /\ UNCHANGED <<rtChan, rtSendq, regChan, regSendq, rc, rt, cid, hres, rres>>
C19_TookRt ==
    /\ rtChan # << >>
    /\ rtChan' = RecvBuf(rtChan, rtSendq) /\ rtSendq' = RecvQ(rtSendq)
    /\ rres' \in (IF Head(rtChan).op = ADDROUTE
                    THEN {"add: no source", "add: no destination", "add: appended"}
                    ELSE {"remove: no source", "remove: no destination",
                          "remove: looped"})
    /\ UNCHANGED <<msgChan, regChan, regSendq, sends, rc, cid, hres>>
C19_TookReg ==
    /\ regChan # << >>
    /\ regChan' = RecvBuf(regChan, regSendq) /\ regSendq' = RecvQ(regSendq)
    /\ hres'.path \in (IF Head(regChan).op = REGISTER
                         THEN {"already", "nouuid", "registered"}
                         ELSE {"deleted", "absent"})
    /\ UNCHANGED <<msgChan, rtChan, rtSendq, sends, rt, rres>>
C19_OneEnvelopePerConsume ==
    /\ [][(consumer = "running" /\ consumer' = "idle") =>
             (C19_TookMsg \/ C19_TookRt \/ C19_TookReg)]_vars
    /\ [][(consumer = "running" /\ ~Queued) =>
             (/\ consumer' = "running"
              /\ UNCHANGED <<rc, rt, cid, hres, rres>>
              /\ Len(sends') <= Len(sends))]_vars

\* A Consume call has handled a route envelope and returned, and the other
\* two channels hold envelopes.
C19_Witness ==
    /\ consumer = "idle"
    /\ rres # "none"
    /\ rtChan = << >>
    /\ msgChan # << >>
    /\ regChan # << >>

====
